---- MODULE Spec2Model ----
(***************************************************************************)
(* Taskmaster backend (Django REST): the identity store, the password      *)
(* reset flow, and the task / category / tag collections, as a state       *)
(* machine whose steps are the HTTP requests the views of                  *)
(* src/Backend/tasks/views.py answer.                                      *)
(*                                                                         *)
(* Time is counted in days.  A password hash is the record                 *)
(* [algorithm, salt, raw]: make_password draws a fresh random salt, which  *)
(* is modelled by a counter.  A reset token is the record of the values    *)
(* its HMAC is computed over (the HMAC itself is taken to be unforgeable,  *)
(* so the only well-formed tokens a caller can present are those that      *)
(* were mailed).                                                           *)
(***************************************************************************)
EXTENDS Integers, Sequences, FiniteSets, TLC

\* ------------------------------------------------------------------ bounds
MaxUsers == 2
MaxSalt == 3
MaxMail == 1
\* the reset links one specification of the reset flow lets be mailed
MaxLinks == 2
MaxTime == 4
MaxRefresh == 2
MaxTasks == 2
MaxCats == 2
MaxTags == 2
\* the categories and the tags created in the runs that have tasks
MaxTaskCats == 1
MaxTaskTags == 1
\* the requests that are in flight at the same time
MaxCalls == 2

\* --------------------------------------------------------------- constants
\* request.user of a request that carries no valid bearer credential
Anonymous == 0
\* django.conf.global_settings.PASSWORD_RESET_TIMEOUT, in days
PASSWORD_RESET_TIMEOUT == 3

\* Task.due_date of a task without a due date (null)
NoDate == -1
\* A date parameter of the task list that forms.DateField cannot parse
BadDate == -2

Usernames == {"ann", "bob"}
Emails == {"a@x.org", "b@x.org"}
Passwords == {"pw1", "pw2"}
Titles == {"t1", "t2"}
Names == {"n1", "n2"}

\* The messages of the responses.
MsgNone == ""
MsgUsernameTaken == "A user with that username already exists."
MsgEmailExists == "Este correo electronico ya esta registrado"
MsgBadCredentials == "Credenciales invalidas"
MsgNotAuthenticated == "Authentication credentials were not provided."
MsgOldPasswordWrong == "Contrasena antigua incorrecta"
MsgPasswordUpdated == "Contrasena actualizada con exito"
MsgEmailRequired == "Se requiere un correo electronico."
MsgResetSent == "Se ha enviado un correo electronico con instrucciones para restablecer tu contrasena."
MsgBadJson == "Formato JSON invalido."
MsgUnexpected == "Ocurrio un error inesperado"
MsgAllRequired == "Todos los campos son requeridos."
MsgMismatch == "Las contrasenas no coinciden."
MsgResetDone == "Contrasena restablecida con exito"
MsgInvalidLink == "Enlace de restablecimiento de contrasena invalido o expirado."
MsgNotFound == "Not found."
MsgInvalid == "Invalid input."
MsgNoEdit == "No tienes permiso para editar esta tarea."
MsgServerError == "Server Error (500)"
MsgNoDelete == "No tienes permiso para eliminar esta tarea."

VARIABLES
    users,      \* pk -> [username, email, password, epoch]; epoch counts the password changes (history)
    salt,       \* the next salt make_password draws
    outbox,     \* the mails sent, in order
    now,        \* the current day
    refresh,    \* the refresh tokens issued: jti -> user
    blacklist,  \* the jti of the blacklisted refresh tokens
    cats,       \* Category rows: id -> name
    tags,       \* Tag rows: id -> name
    tasks,      \* Task rows: id -> [user, title, description, category, tags, ...]
    nextId,     \* the next AutoField value of each table
    resp,       \* the response to the last request
    calls       \* the requests in flight: call -> what its handler holds between two queries

acctVars == <<users, salt, outbox, refresh, blacklist, calls>>
taskVars == <<cats, tags, tasks, nextId>>
vars == <<users, salt, outbox, now, refresh, blacklist, cats, tags, tasks, nextId, resp, calls>>

\* ------------------------------------------------------------ JSON values
\* data.get(key) of a parsed body: a non-empty string, a number, or "absent"
\* for a missing key, null or the empty string.
Str(s) == [kind |-> "string", s |-> s]
Num == [kind |-> "number", s |-> "7"]
Absent == [kind |-> "absent", s |-> ""]

\* Python truthiness of such a value.
Truthy(x) == x.kind # "absent"

\* ------------------------------------------------------- password hashing
NoHash == [algorithm |-> "", salt |-> 0, raw |-> ""]

\* make_password(raw): a salted hash of raw under a fresh salt.
make_password(raw, s) == [algorithm |-> "pbkdf2_sha256", salt |-> s, raw |-> raw]

\* check_password(raw, encoded)
check_password(raw, encoded) ==
    encoded.algorithm = "pbkdf2_sha256" /\ encoded.raw = raw

\* set_password keeping the raw password as the stored credential
set_password_plain(u, raw) ==
    [users EXCEPT ![u].password = [algorithm |-> "", salt |-> 0, raw |-> raw], ![u].epoch = @ + 1]

\* user.set_password(raw); user.save()
set_password(u, raw) ==
    [users EXCEPT ![u].password = make_password(raw, salt), ![u].epoch = @ + 1]

\* ------------------------------------------------------------- exchanges
\* A request and its response.  Of the request: the endpoint (op), request.user
\* (who), the primary key in the URL (target), and of its body what the
\* properties below speak of: the value under the read-only key 'user'
\* (asUser), the kind of body (json), the value under 'email', whether the
\* four fields of a reset are all present (complete), new_password when
\* confirm_password equals it (matching), and the index in the outbox of the
\* mail whose uidb64 and token the request carries (link, 0 for none).
\* Of a registration: the username (name), the email and the password; of a
\* change of password: old_password (old) and new_password (password); of a
\* logout: the refresh token (target); of a task list: the query parameters
\* (q, a parameter that is not supplied being "" or NoDate); of a task create or update: the
\* fields of the body other than the title and the keys it holds (rq); of the delete of a category:
\* the tasks that referenced it (cascade).
\* Of the response: status, msg, detail, the fields its error body names
\* (errors), the access credential issued (access) and the rows returned
\* (data).
NoQuery ==
    [title |-> "", description |-> "", status |-> "", priority |-> "", category |-> "",
     due_date |-> NoDate, due_date_after |-> NoDate, due_date_before |-> NoDate]

Response(op, who, status, msg) ==
    [op |-> op, who |-> who, status |-> status, msg |-> msg,
     detail |-> "", access |-> Anonymous, target |-> 0, data |-> {},
     asUser |-> 0, json |-> "", email |-> Absent, complete |-> FALSE,
     matching |-> Absent, link |-> 0,
     name |-> "", password |-> Absent, old |-> Absent, errors |-> {}, cascade |-> {},
     q |-> NoQuery,
     rq |-> [due_date |-> [given |-> FALSE, date |-> NoDate], priority |-> "",
             status |-> "", category |-> [given |-> FALSE, id |-> 0],
             tags |-> [given |-> FALSE, ids |-> {}], fields |-> {}]]

\* ------------------------------------------------------------ permissions
SafeMethods == {"GET", "HEAD", "OPTIONS"}
UnsafeMethods == {"POST", "PUT", "PATCH", "DELETE"}

\* request.user: the existing user the request's bearer credential was issued
\* for (the credentials are stateless: the server keeps no record of them),
\* or Anonymous for a request without a valid one.
Requesters == DOMAIN users \cup {Anonymous}

IsAuthenticated(who) == who # Anonymous

\* IsAuthenticatedOrReadOnly letting every request through (AllowAny)
IsAuthenticatedOrReadOnly_any(who, method) == TRUE

\* permissions.IsAuthenticatedOrReadOnly.has_permission
IsAuthenticatedOrReadOnly(who, method) ==
    method \in SafeMethods \/ who # Anonymous

\* The requests are answered one at a time: a request is taken when the
\* response to the one before it has been delivered.
Idle == Response("idle", Anonymous, 0, MsgNone)
\* No request is in flight.
NoCall == [op |-> "none"]
NoCalls == [c \in 1..MaxCalls |-> NoCall]
Ready == resp = Idle

\* The response leaves the server.
Deliver ==
    /\ resp # Idle
    /\ resp' = Idle
    /\ UNCHANGED <<acctVars, now, taskVars>>

\* The answer to a request whose permission check failed: the handler is not run.
Denied(op) ==
    /\ resp' = Response(op, Anonymous, 401, MsgNotAuthenticated)
    /\ UNCHANGED <<acctVars, now, taskVars>>

Init ==
    /\ users = <<>>
    /\ salt = 1
    /\ outbox = <<>>
    /\ now = 0
    /\ refresh = <<>>
    /\ blacklist = {}
    /\ cats = <<>>
    /\ tags = <<>>
    /\ tasks = <<>>
    /\ nextId = [task |-> 1, category |-> 1, tag |-> 1]
    /\ resp = Idle
    /\ calls = NoCalls

\* ------------------------------------------------------------ registration
UsernameExists(username) == \E u \in DOMAIN users : users[u].username = username
EmailExists(email) == \E u \in DOMAIN users : users[u].email = email

\* UserRegistrationView.create: the serializer's unique validator on username
\* answers first (line 52), then the view's own checks (lines 58-64).
Register(username, email, password) ==
    /\ Ready
    /\ IF UsernameExists(username)
       THEN /\ resp' = [Response("register", Anonymous, 400, MsgUsernameTaken)
                           EXCEPT !.detail = "username", !.errors = {"username"},
                                  !.name = username, !.email = Str(email),
                                  !.password = Str(password)]
            /\ UNCHANGED <<acctVars, now, taskVars>>
       ELSE IF EmailExists(email)
       THEN /\ resp' = [Response("register", Anonymous, 400, MsgEmailExists)
                           EXCEPT !.detail = "email", !.errors = {"email"},
                                  !.name = username, !.email = Str(email),
                                  !.password = Str(password)]
            /\ UNCHANGED <<acctVars, now, taskVars>>
       ELSE /\ Len(users) < MaxUsers
            /\ salt <= MaxSalt
            /\ users' = Append(users, [username |-> username, email |-> email,
                                       password |-> make_password(password, salt),
                                       epoch |-> 0])
            /\ salt' = salt + 1
            /\ resp' = [Response("register", Anonymous, 201, MsgNone)
                           EXCEPT !.detail = username,
                                  !.name = username, !.email = Str(email),
                                  !.password = Str(password)]
            /\ UNCHANGED <<outbox, refresh, blacklist, now, taskVars, calls>>

\* UserRegistrationView.create of a request that runs while others do, up
\* to its last read: is_valid and the two exists() queries (lines 51-64).  A
\* request they refuse is answered at once.
Register_check(c, username, email, password) ==
    /\ Ready
    /\ calls[c] = NoCall
    /\ IF UsernameExists(username) \/ EmailExists(email)
       THEN Register(username, email, password)
       ELSE /\ calls' = [calls EXCEPT ![c] =
                            [op |-> "register", username |-> username, email |-> email,
                             password |-> password]]
            /\ UNCHANGED <<users, salt, outbox, refresh, blacklist, now, taskVars, resp>>

\* The rest of that request: perform_create inserts the row (lines 66-68).
\* The username column is unique, so the insert of a name that was taken in
\* the meantime raises IntegrityError, which nothing catches; the email
\* column carries no constraint.
Register_insert(c) ==
    /\ Ready
    /\ calls[c].op = "register"
    /\ calls' = [calls EXCEPT ![c] = NoCall]
    /\ LET call == calls[c]
       IN  IF UsernameExists(call.username)
           THEN /\ resp' = [Response("register", Anonymous, 500, MsgServerError)
                               EXCEPT !.detail = "IntegrityError", !.name = call.username,
                                      !.email = Str(call.email),
                                      !.password = Str(call.password)]
                /\ UNCHANGED <<users, salt, outbox, refresh, blacklist, now, taskVars>>
           ELSE /\ Len(users) < MaxUsers
                /\ salt <= MaxSalt
                /\ users' = Append(users, [username |-> call.username, email |-> call.email,
                                           password |-> make_password(call.password, salt),
                                           epoch |-> 0])
                /\ salt' = salt + 1
                /\ resp' = [Response("register", Anonymous, 201, MsgNone)
                               EXCEPT !.detail = call.username, !.name = call.username,
                                      !.email = Str(call.email),
                                      !.password = Str(call.password)]
                /\ UNCHANGED <<outbox, refresh, blacklist, now, taskVars>>

\* authenticate(request, username=..., password=...) over the user table:
\* the user, or Anonymous
Authenticate(table, username, password) ==
    LET match == {u \in DOMAIN table :
                    table[u].username = username /\ check_password(password, table[u].password)}
    IN  IF match = {} THEN Anonymous ELSE CHOOSE u \in match : TRUE

authenticate(username, password) == Authenticate(users, username, password)

\* LoginView.post
Login(username, password) ==
    /\ Ready
    /\ LET user == authenticate(username, password)
       IN  IF user # Anonymous
           THEN /\ Len(refresh) < MaxRefresh
                /\ refresh' = Append(refresh, user)
                /\ resp' = [Response("login", Anonymous, 200, MsgNone)
                               EXCEPT !.access = user, !.detail = users[user].username]
                /\ UNCHANGED <<users, salt, outbox, blacklist, now, taskVars, calls>>
           ELSE /\ resp' = Response("login", Anonymous, 401, MsgBadCredentials)
                /\ UNCHANGED <<acctVars, now, taskVars>>

\* RefreshToken(refresh_token) without the look-up in the blacklist
ValidRefresh_unlisted(refresh_token) == refresh_token \in DOMAIN refresh

\* RefreshToken(refresh_token): the token verifies when it is one that was
\* issued and is not blacklisted
ValidRefresh(refresh_token) ==
    refresh_token \in DOMAIN refresh /\ refresh_token \notin blacklist

\* LogoutView.post: refresh_token is a jti of an issued token, or 0 for a
\* missing or malformed one.  RefreshToken(...) raises for a malformed or
\* blacklisted token.
Logout(who, refresh_token) ==
    /\ Ready
    /\ IF ~IsAuthenticated(who) THEN Denied("logout")
       ELSE IF ValidRefresh(refresh_token)
       THEN /\ blacklist' = blacklist \cup {refresh_token}
            /\ resp' = [Response("logout", who, 205, MsgNone) EXCEPT !.target = refresh_token]
            /\ UNCHANGED <<users, salt, outbox, refresh, now, taskVars, calls>>
       ELSE /\ resp' = [Response("logout", who, 400, MsgNone) EXCEPT !.target = refresh_token]
            /\ UNCHANGED <<acctVars, now, taskVars>>

\* UserProfileView.retrieve
ProfileGet(who) ==
    /\ Ready
    /\ IF ~IsAuthenticated(who) THEN Denied("profile")
       ELSE /\ resp' = [Response("profile", who, 200, MsgNone)
                           EXCEPT !.data = {[id |-> who, username |-> users[who].username,
                                             email |-> users[who].email]}]
            /\ UNCHANGED <<acctVars, now, taskVars>>

\* UserProfileView.update (PATCH; "" stands for an omitted field):
\* UserSerializer validates that the username is that of no other user; the
\* email is not checked against the others.
ProfileUpdate(who, username, email) ==
    /\ Ready
    /\ IF ~IsAuthenticated(who) THEN Denied("profile_update")
       ELSE IF \E u \in DOMAIN users : u # who /\ users[u].username = username
       THEN /\ resp' = [Response("profile_update", who, 400, MsgUsernameTaken)
                           EXCEPT !.detail = "username"]
            /\ UNCHANGED <<acctVars, now, taskVars>>
       ELSE /\ users' = [users EXCEPT
                            ![who].username = IF username # "" THEN username ELSE @,
                            ![who].email = IF email # "" THEN email ELSE @]
            /\ resp' = [Response("profile_update", who, 200, MsgNone)
                           EXCEPT !.data = {[id |-> who, username |-> users'[who].username,
                                             email |-> users'[who].email]}]
            /\ UNCHANGED <<salt, outbox, refresh, blacklist, now, taskVars, calls>>

\* ChangePasswordView.update without the check of old_password
ChangePassword_unchecked(who, old_password, new_password) ==
    /\ Ready
    /\ IF ~IsAuthenticated(who) THEN Denied("change_password")
       ELSE /\ salt <= MaxSalt
            /\ users' = set_password(who, new_password)
            /\ salt' = salt + 1
            /\ resp' = [Response("change_password", who, 200, MsgPasswordUpdated)
                           EXCEPT !.old = Str(old_password), !.password = Str(new_password)]
            /\ UNCHANGED <<outbox, refresh, blacklist, now, taskVars, calls>>

\* ChangePasswordView.update
ChangePassword(who, old_password, new_password) ==
    /\ Ready
    /\ IF ~IsAuthenticated(who) THEN Denied("change_password")
       ELSE IF ~check_password(old_password, users[who].password)
       THEN /\ resp' = [Response("change_password", who, 400, MsgOldPasswordWrong)
                           EXCEPT !.old = Str(old_password), !.password = Str(new_password)]
            /\ UNCHANGED <<acctVars, now, taskVars>>
       ELSE /\ salt <= MaxSalt
            /\ users' = set_password(who, new_password)
            /\ salt' = salt + 1
            /\ resp' = [Response("change_password", who, 200, MsgPasswordUpdated)
                           EXCEPT !.old = Str(old_password), !.password = Str(new_password)]
            /\ UNCHANGED <<outbox, refresh, blacklist, now, taskVars, calls>>

\* --------------------------------------------------------- password reset
\* urlsafe_base64_encode(force_bytes(pk)), for pk = 1, 2, 3, 4
B64 == <<"MQ", "Mg", "Mw", "NA">>
urlsafe_base64_encode(pk) == B64[pk]

\* _make_hash_value leaving the password hash out of the HMAC input
make_hash_value_no_password(user, timestamp) ==
    [uid |-> user, password |-> NoHash,
     email |-> users[user].email, ts |-> timestamp]

\* PasswordResetTokenGenerator._make_hash_value: what the token's HMAC is
\* computed over (last_login is never set by these views).
make_hash_value(user, timestamp) ==
    [uid |-> user, password |-> users[user].password,
     email |-> users[user].email, ts |-> timestamp]

NoMac == [uid |-> 0, password |-> NoHash, email |-> "", ts |-> 0]

\* default_token_generator.make_token(user): "<timestamp>-<hmac>"
make_token(user) == [kind |-> "string", ts |-> now, mac |-> make_hash_value(user, now)]

\* Values a caller can put under 'token': a mailed token, a string that is no
\* token, a number, or nothing.
GarbageToken == [kind |-> "string", ts |-> -1, mac |-> NoMac]
NumToken == [kind |-> "number", ts |-> -1, mac |-> NoMac]
AbsentToken == [kind |-> "absent", ts |-> -1, mac |-> NoMac]
TokenInputs == {outbox[i].token : i \in DOMAIN outbox} \cup {GarbageToken, NumToken, AbsentToken}

\* check_token accepting only the token that was issued last
check_token_latest(user, token) ==
    /\ token.ts >= 0
    /\ token.mac = make_hash_value(user, token.ts)
    /\ now - token.ts <= PASSWORD_RESET_TIMEOUT
    /\ outbox # <<>> /\ token = outbox[Len(outbox)].token

\* default_token_generator.check_token(user, token), for a string token
check_token(user, token) ==
    /\ token.ts >= 0
    /\ token.mac = make_hash_value(user, token.ts)
    /\ now - token.ts <= PASSWORD_RESET_TIMEOUT

\* Values a caller can put under 'uidb64': the encoding of a primary key,
\* base64 of a text that is no number ("abc"), a string that is not base64,
\* a number, or nothing.
UidInputs == {Str(B64[k]) : k \in 1..(MaxUsers + 1)} \cup {Str("YWJj"), Str("A"), Num, Absent}

\* uid = force_str(urlsafe_base64_decode(uidb64)); user = User.objects.get(pk=uid):
\* the user found, or the exception raised.
ResolveUser(uidb64) ==
    IF uidb64.kind # "string"
    THEN [exc |-> "AttributeError", user |-> Anonymous]
    ELSE IF \E k \in DOMAIN B64 : B64[k] = uidb64.s
    THEN LET pk == CHOOSE k \in DOMAIN B64 : B64[k] = uidb64.s
         IN  IF pk \in DOMAIN users
             THEN [exc |-> "", user |-> pk]
             ELSE [exc |-> "DoesNotExist", user |-> Anonymous]
    ELSE [exc |-> "ValueError", user |-> Anonymous]

\* except (TypeError, ValueError, OverflowError, User.DoesNotExist)
CaughtOnResolve == {"TypeError", "ValueError", "OverflowError", "DoesNotExist"}

PasswordInputs == {Str(p) : p \in Passwords} \cup {Num, Absent}
EmailInputs == {Str(e) : e \in Emails \cup {"c@x.org"}} \cup {Absent}

\* The request bodies: not JSON, a JSON array, or a JSON object.
ForgotBodies ==
    [json : {"malformed", "array"}, email : {Absent}]
    \cup [json : {"object"}, email : EmailInputs]
ResetBodies ==
    [json : {"malformed", "array"}, uidb64 : {Absent}, token : {AbsentToken},
     new_password : {Absent}, confirm_password : {Absent}]
    \cup [json : {"object"}, uidb64 : UidInputs, token : TokenInputs,
          new_password : PasswordInputs, confirm_password : PasswordInputs]

\* if not all([uidb64, token, new_password, confirm_password])
AllPresent(body) ==
    /\ Truthy(body.uidb64) /\ Truthy(body.token)
    /\ Truthy(body.new_password) /\ Truthy(body.confirm_password)

\* the comparison of the two passwords left out
PasswordsEqual_skipped(body) == TRUE

\* not (new_password != confirm_password)
PasswordsEqual(body) == body.new_password = body.confirm_password

\* The mail whose link the body carries, 0 for none.
LinkOf(body) ==
    LET hits == {i \in DOMAIN outbox :
                    outbox[i].uidb64 = body.uidb64 /\ outbox[i].token = body.token}
    IN  IF hits = {} THEN 0 ELSE CHOOSE i \in hits : \A j \in hits : i <= j

\* The request of an exchange with forgot_password or reset_password.
ForgotRequest(body) ==
    [Response("forgot_password", Anonymous, 0, MsgNone)
        EXCEPT !.json = body.json, !.email = body.email]
ResetRequest(body) ==
    [Response("reset_password", Anonymous, 0, MsgNone)
        EXCEPT !.json = body.json,
               !.complete = AllPresent(body),
               !.matching = IF body.new_password = body.confirm_password
                            THEN body.new_password ELSE Absent,
               !.link = LinkOf(body)]

\* except Exception as e: the 500 response, with str(e) in its body
Unexpected(req, cause) ==
    /\ resp' = [req EXCEPT !.status = 500, !.msg = MsgUnexpected, !.detail = cause]
    /\ UNCHANGED <<acctVars, now, taskVars>>

Fail(req, status, msg) ==
    /\ resp' = [req EXCEPT !.status = status, !.msg = msg]
    /\ UNCHANGED <<acctVars, now, taskVars>>

\* forgot_password; smtp tells whether send_mail succeeds
forgot_password(body, smtp) ==
    /\ Ready
    /\ IF body.json = "malformed" THEN Fail(ForgotRequest(body), 400, MsgBadJson)
       ELSE IF body.json = "array" THEN Unexpected(ForgotRequest(body), "AttributeError")
       ELSE IF ~Truthy(body.email) THEN Fail(ForgotRequest(body), 400, MsgEmailRequired)
       ELSE LET found == {u \in DOMAIN users : users[u].email = body.email.s}
            IN  IF found = {} THEN Fail(ForgotRequest(body), 200, MsgResetSent)
                ELSE IF Cardinality(found) > 1
                THEN Unexpected(ForgotRequest(body), "MultipleObjectsReturned")
                ELSE IF ~smtp THEN Unexpected(ForgotRequest(body), "SMTPException")
                ELSE LET user == CHOOSE u \in found : TRUE
                     IN  /\ Len(outbox) < MaxLinks
                         /\ outbox' = Append(outbox,
                                [to |-> body.email.s, user |-> user, epoch |-> users[user].epoch,
                                 uidb64 |-> Str(urlsafe_base64_encode(user)),
                                 token |-> make_token(user)])
                         /\ resp' = [ForgotRequest(body) EXCEPT !.status = 200, !.msg = MsgResetSent]
                         /\ UNCHANGED <<users, salt, refresh, blacklist, now, taskVars, calls>>

\* reset_password.  RefreshToken.for_user(user) records the refresh token it
\* issues; only the access token derived from it is returned.
reset_password(body) ==
    /\ Ready
    /\ IF body.json = "malformed" THEN Fail(ResetRequest(body), 400, MsgBadJson)
       ELSE IF body.json = "array" THEN Unexpected(ResetRequest(body), "AttributeError")
       ELSE IF ~AllPresent(body)
       THEN Fail(ResetRequest(body), 400, MsgAllRequired)
       ELSE IF ~PasswordsEqual(body)
       THEN Fail(ResetRequest(body), 400, MsgMismatch)
       ELSE LET found == ResolveUser(body.uidb64)
                user == found.user
            IN  IF found.exc # "" /\ found.exc \notin CaughtOnResolve
                THEN Unexpected(ResetRequest(body), found.exc)
                ELSE IF user = Anonymous THEN Fail(ResetRequest(body), 400, MsgInvalidLink)
                ELSE IF body.token.kind # "string"
                THEN Unexpected(ResetRequest(body), "AttributeError")
                ELSE IF ~check_token(user, body.token)
                THEN Fail(ResetRequest(body), 400, MsgInvalidLink)
                ELSE IF body.new_password.kind # "string"
                THEN Unexpected(ResetRequest(body), "TypeError")
                ELSE /\ salt <= MaxSalt
                     /\ users' = set_password(user, body.new_password.s)
                     /\ salt' = salt + 1
                     /\ refresh' = Append(refresh, user)
                     /\ resp' = [ResetRequest(body) EXCEPT !.status = 200, !.msg = MsgResetDone,
                                                       !.access = user]
                     /\ UNCHANGED <<outbox, blacklist, now, taskVars, calls>>

\* reset_password reaches user.set_password: the body is complete, the
\* user is found and check_token accepts the token.
ResetPasses(body) ==
    /\ body.json = "object" /\ AllPresent(body) /\ PasswordsEqual(body)
    /\ ResolveUser(body.uidb64).exc = ""
    /\ ResolveUser(body.uidb64).user # Anonymous
    /\ body.token.kind = "string"
    /\ check_token(ResolveUser(body.uidb64).user, body.token)
    /\ body.new_password.kind = "string"

\* reset_password of a request that runs while others do, up to its last
\* read: User.objects.get(pk=uid) loads the row into the handler's own user
\* object, which check_token and set_password then work on.  A request that
\* does not reach set_password is answered at once.
reset_password_get(c, body) ==
    /\ Ready
    /\ calls[c] = NoCall
    /\ IF ~ResetPasses(body) THEN reset_password(body)
       ELSE LET user == ResolveUser(body.uidb64).user
            IN  /\ calls' = [calls EXCEPT ![c] =
                                [op |-> "reset_password", user |-> user, row |-> users[user],
                                 new_password |-> body.new_password.s,
                                 req |-> ResetRequest(body)]]
                /\ UNCHANGED <<users, salt, outbox, refresh, blacklist, now, taskVars, resp>>

\* The rest of that request: user.save() writes every column of the
\* handler's user object over the row, RefreshToken.for_user issues the
\* tokens and the 200 is answered.  The view takes no lock and opens no
\* transaction of its own; a store that serialises its transactions may
\* instead refuse the write of a request whose row was written since it was
\* read (OperationalError, caught by except Exception).
reset_password_save(c) ==
    /\ Ready
    /\ calls[c].op = "reset_password"
    /\ calls' = [calls EXCEPT ![c] = NoCall]
    /\ LET call == calls[c]
       IN  \/ /\ salt <= MaxSalt
              /\ users' = [users EXCEPT ![call.user] =
                               [call.row EXCEPT !.password = make_password(call.new_password, salt),
                                                !.epoch = users[call.user].epoch + 1]]
              /\ resp' = [call.req EXCEPT !.status = 200, !.msg = MsgResetDone,
                                          !.access = call.user]
              /\ refresh' = Append(refresh, call.user)
              /\ salt' = salt + 1
              /\ UNCHANGED <<outbox, blacklist, now, taskVars>>
           \/ /\ users[call.user] # call.row
              /\ resp' = [call.req EXCEPT !.status = 500, !.msg = MsgUnexpected,
                                          !.detail = "OperationalError"]
              /\ UNCHANGED <<users, salt, outbox, refresh, blacklist, now, taskVars>>

\* token_verify (rest_framework_simplejwt TokenVerifyView, no permission
\* class): tells whether the token in the body is a valid one; 'valid' is
\* whether it is.
TokenVerify(valid) ==
    /\ Ready
    /\ resp' = IF valid THEN Response("token_verify", Anonymous, 200, MsgNone)
               ELSE Response("token_verify", Anonymous, 401, MsgInvalid)
    /\ UNCHANGED <<acctVars, now, taskVars>>

\* ------------------------------------------------------------------ tasks
\* A row removed from, or put into, a table.
Without(table, id) == [i \in DOMAIN table \ {id} |-> table[i]]
With(table, id, row) == [i \in DOMAIN table \cup {id} |-> IF i = id THEN row ELSE table[i]]

\* TaskSerializer.to_representation
TaskData(id) ==
    [id |-> id, user |-> tasks[id].user, title |-> tasks[id].title,
     description |-> tasks[id].description,
     category |-> tasks[id].category, tags |-> tasks[id].tags,
     due_date |-> tasks[id].due_date, priority |-> tasks[id].priority,
     status |-> tasks[id].status]

\* get_queryset without its filter: Task.objects.all()
get_queryset_all(user) == DOMAIN tasks

\* TaskViewSet.get_queryset: the ids of the rows of Task.objects.filter(user=user)
get_queryset(user) == {t \in DOMAIN tasks : tasks[t].user = user}

\* GenericAPIView.get_object over get_queryset: the row, or 0 for Http404
get_object(user, pk) == IF pk \in get_queryset(user) THEN pk ELSE 0

\* The fields of a request body TaskSerializer reads.  'user' is what the
\* client put under the read-only key (0: nothing, or the primary key of ann); title "" stands for an
\* omitted title and description "" for an omitted description (stored as
\* null); category 0 is JSON null.
CategoryInputs == {[given |-> FALSE, id |-> 0]} \cup {[given |-> TRUE, id |-> i] : i \in 0..MaxCats}
TagsInputs == {[given |-> FALSE, ids |-> {}]} \cup {[given |-> TRUE, ids |-> S] : S \in SUBSET (1..MaxTags)}
\* due_date is omitted, null (NoDate) or a day; priority and status are
\* omitted ("") or a string.
DueInputs ==
    {[given |-> FALSE, date |-> NoDate]}
    \cup {[given |-> TRUE, date |-> d] : d \in {NoDate} \cup (0..MaxTime)}
Priorities == {"low", "medium", "high"}
Statuses == {"pending", "in_progress", "completed"}
PriorityInputs == {"", "low", "medium", "high", "urgent"}
StatusInputs == {"", "pending", "in_progress", "completed", "done"}
TaskBodies ==
    {b \in [user : {0, 1}, title : Titles \cup {""}, description : {""},
            category : CategoryInputs,
            tags : TagsInputs, due_date : {[given |-> FALSE, date |-> NoDate]},
            priority : {""}, status : {""}] :
        b.category.id <= MaxTaskCats /\ b.tags.ids \subseteq 1..MaxTaskTags}

\* The keys of a request body, among those TaskSerializer writes.
Present(body) ==
    {f \in {"title", "description", "category", "tags", "due_date", "priority", "status"} :
        \/ f = "title" /\ body.title # ""
        \/ f = "description" /\ body.description # ""
        \/ f = "category" /\ body.category.given
        \/ f = "tags" /\ body.tags.given
        \/ f = "due_date" /\ body.due_date.given
        \/ f = "priority" /\ body.priority # ""
        \/ f = "status" /\ body.status # ""}

\* What of a request the exchange keeps.
Rq(body) ==
    [due_date |-> body.due_date, priority |-> body.priority, status |-> body.status,
     category |-> body.category, tags |-> body.tags, fields |-> Present(body)]

\* validate_due_date accepting every date
validate_due_date_any(value) == TRUE

\* TaskSerializer.validate_due_date: is the value accepted?
validate_due_date(value) == ~(value # NoDate /\ value < now)

\* is_valid without the choice fields for priority and status
TaskErrors_no_choices(body, partial) ==
    {f \in {"title", "category", "tags", "due_date"} :
        \/ f = "title" /\ ~partial /\ body.title = ""
        \/ f = "category" /\ body.category.given /\ body.category.id # 0
                /\ body.category.id \notin DOMAIN cats
        \/ f = "tags" /\ body.tags.given /\ ~(body.tags.ids \subseteq DOMAIN tags)
        \/ f = "due_date" /\ body.due_date.given /\ ~validate_due_date(body.due_date.date)}

\* TaskSerializer.is_valid, field by field: the fields in error.  title is
\* required unless the update is partial; category and tags are primary keys
\* of existing rows; priority and status are among the choices.
TaskErrors(body, partial) ==
    {f \in {"title", "category", "tags", "due_date", "priority", "status"} :
        \/ f = "title" /\ ~partial /\ body.title = ""
        \/ f = "category" /\ body.category.given /\ body.category.id # 0
                /\ body.category.id \notin DOMAIN cats
        \/ f = "tags" /\ body.tags.given /\ ~(body.tags.ids \subseteq DOMAIN tags)
        \/ f = "due_date" /\ body.due_date.given /\ ~validate_due_date(body.due_date.date)
        \/ f = "priority" /\ body.priority # "" /\ body.priority \notin Priorities
        \/ f = "status" /\ body.status # "" /\ body.status \notin Statuses}

\* is_valid accepting every body
TaskBodyValid_any(body, partial) == TRUE

\* serializer.is_valid(raise_exception=True)
TaskBodyValid(body, partial) == TaskErrors(body, partial) = {}

\* TaskViewSet.list
ListTasks(who) ==
    /\ Ready
    /\ IF ~IsAuthenticated(who) THEN Denied("task_list")
       ELSE /\ resp' = [Response("task_list", who, 200, MsgNone)
                           EXCEPT !.data = {TaskData(t) : t \in get_queryset(who)}]
            /\ UNCHANGED <<acctVars, now, taskVars>>

\* The characters of the strings that titles, descriptions, statuses,
\* priorities and query parameters are made of here.
Chars(s) ==
    CASE s = "" -> <<>>
      [] s = "Ab" -> <<"A", "b">>
      [] s = "b" -> <<"b">>
      [] s = "B" -> <<"B">>
      [] s = " b" -> <<" ", "b">>
      [] s = "a" -> <<"a">>
      [] s = "1" -> <<"1">>
      [] s = "abc" -> <<"a", "b", "c">>
      [] s = "pending" -> <<"p", "e", "n", "d", "i", "n", "g">>
      [] s = "completed" -> <<"c", "o", "m", "p", "l", "e", "t", "e", "d">>
      [] s = "medium" -> <<"m", "e", "d", "i", "u", "m">>
      [] s = "high" -> <<"h", "i", "g", "h">>

\* The case folding of icontains (LIKE / UPPER of the database), per character
Lower(c) == CASE c = "A" -> "a" [] c = "B" -> "b" [] OTHER -> c

LowerSeq(cs) == [i \in DOMAIN cs |-> Lower(cs[i])]

\* str.strip(): leading and trailing blanks removed
RECURSIVE Strip(_)
Strip(cs) ==
    IF cs = <<>> THEN cs
    ELSE IF Head(cs) = " " THEN Strip(Tail(cs))
    ELSE IF cs[Len(cs)] = " " THEN Strip(SubSeq(cs, 1, Len(cs) - 1))
    ELSE cs

\* forms.CharField.clean of a CharFilter: the value the filter receives
CharValue(s) == Strip(Chars(s))

\* field__icontains = value on a text that is not null
icontains(text, value) ==
    LET t == LowerSeq(text)
        v == LowerSeq(value)
    IN  \E i \in 0..(Len(t) - Len(v)) : SubSeq(t, i + 1, i + Len(v)) = v

\* int(value) of IntegerField.get_prep_value: is it a decimal number, and
\* which one (a value that is not raises ValueError)
Digits == {"0", "1", "2", "3", "4", "5", "6", "7", "8", "9"}

DigitValue(c) ==
    CASE c = "0" -> 0 [] c = "1" -> 1 [] c = "2" -> 2 [] c = "3" -> 3 [] c = "4" -> 4
      [] c = "5" -> 5 [] c = "6" -> 6 [] c = "7" -> 7 [] c = "8" -> 8 [] c = "9" -> 9

IsNumber(cs) == cs # <<>> /\ \A i \in DOMAIN cs : cs[i] \in Digits

RECURSIVE ToInt(_)
ToInt(cs) ==
    IF cs = <<>> THEN 0
    ELSE 10 * ToInt(SubSeq(cs, 1, Len(cs) - 1)) + DigitValue(cs[Len(cs)])

\* TaskFilter.filter_queryset: the rows of qs every filter with a non-empty
\* cleaned value keeps.  A null description, category or due date matches
\* no value.
TaskFilter(qs, q) ==
    {t \in qs :
        /\ CharValue(q.title) = <<>> \/ icontains(Chars(tasks[t].title), CharValue(q.title))
        /\ CharValue(q.description) = <<>>
              \/ (tasks[t].description # ""
                    /\ icontains(Chars(tasks[t].description), CharValue(q.description)))
        /\ CharValue(q.status) = <<>> \/ Chars(tasks[t].status) = CharValue(q.status)
        /\ CharValue(q.priority) = <<>> \/ Chars(tasks[t].priority) = CharValue(q.priority)
        /\ CharValue(q.category) = <<>>
              \/ (tasks[t].category # 0 /\ tasks[t].category = ToInt(CharValue(q.category)))
        /\ q.due_date = NoDate \/ (tasks[t].due_date # NoDate /\ tasks[t].due_date = q.due_date)
        /\ q.due_date_after = NoDate
              \/ (tasks[t].due_date # NoDate /\ tasks[t].due_date >= q.due_date_after)
        /\ q.due_date_before = NoDate
              \/ (tasks[t].due_date # NoDate /\ tasks[t].due_date <= q.due_date_before)}

\* TaskFilter.is_valid: the parameters the filter form rejects
FilterErrors(q) ==
    {f \in {"due_date", "due_date_after", "due_date_before"} : q[f] = BadDate}

\* category_id__exact = value: does the lookup raise ValueError?
CategoryLookupFails(q) == CharValue(q.category) # <<>> /\ ~IsNumber(CharValue(q.category))

\* TaskViewSet.list with query parameters: DjangoFilterBackend over get_queryset
FilterTasks(who, q) ==
    /\ Ready
    /\ IF ~IsAuthenticated(who) THEN Denied("task_list")
       ELSE /\ resp' = IF FilterErrors(q) # {}
                       THEN [Response("task_list", who, 400, MsgInvalid)
                                EXCEPT !.q = q, !.errors = FilterErrors(q)]
                       ELSE IF CategoryLookupFails(q)
                       THEN [Response("task_list", who, 500, MsgServerError) EXCEPT !.q = q]
                       ELSE [Response("task_list", who, 200, MsgNone)
                                EXCEPT !.q = q,
                                       !.data = {TaskData(t) : t \in TaskFilter(get_queryset(who), q)}]
            /\ UNCHANGED <<acctVars, now, taskVars>>

\* TaskViewSet.retrieve
RetrieveTask(who, pk) ==
    /\ Ready
    /\ IF ~IsAuthenticated(who) THEN Denied("task_retrieve")
       ELSE LET obj == get_object(who, pk)
            IN  /\ resp' = IF obj = 0
                           THEN [Response("task_retrieve", who, 404, MsgNotFound) EXCEPT !.target = pk]
                           ELSE [Response("task_retrieve", who, 200, MsgNone)
                                    EXCEPT !.target = pk, !.data = {TaskData(obj)}]
                /\ UNCHANGED <<acctVars, now, taskVars>>

\* perform_create saving the owner the body names, when it names one
perform_create_from_body(who, body) ==
    [user |-> IF body.user # 0 THEN body.user ELSE who, title |-> body.title,
     description |-> body.description,
     category |-> IF body.category.given THEN body.category.id ELSE 0,
     tags |-> IF body.tags.given THEN body.tags.ids ELSE {},
     due_date |-> IF body.due_date.given THEN body.due_date.date ELSE NoDate,
     priority |-> IF body.priority # "" THEN body.priority ELSE "medium",
     status |-> IF body.status # "" THEN body.status ELSE "pending"]

\* TaskViewSet.perform_create: serializer.save(user=self.request.user)
perform_create(who, body) ==
    [user |-> who, title |-> body.title, description |-> body.description,
     category |-> IF body.category.given THEN body.category.id ELSE 0,
     tags |-> IF body.tags.given THEN body.tags.ids ELSE {},
     due_date |-> IF body.due_date.given THEN body.due_date.date ELSE NoDate,
     priority |-> IF body.priority # "" THEN body.priority ELSE "medium",
     status |-> IF body.status # "" THEN body.status ELSE "pending"]

\* TaskViewSet.create
CreateTask(who, body) ==
    /\ Ready
    /\ IF ~IsAuthenticated(who) THEN Denied("task_create")
       ELSE IF ~TaskBodyValid(body, FALSE)
       THEN /\ resp' = [Response("task_create", who, 400, MsgInvalid)
                           EXCEPT !.asUser = body.user, !.rq = Rq(body),
                                  !.errors = TaskErrors(body, FALSE)]
            /\ UNCHANGED <<acctVars, now, taskVars>>
       ELSE /\ nextId.task <= MaxTasks
            /\ tasks' = With(tasks, nextId.task, perform_create(who, body))
            /\ nextId' = [nextId EXCEPT !.task = @ + 1]
            /\ resp' = [Response("task_create", who, 201, MsgNone)
                           EXCEPT !.target = nextId.task, !.asUser = body.user,
                                  !.rq = Rq(body),
                                  !.data = {[id |-> nextId.task] @@ perform_create(who, body)}]
            /\ UNCHANGED <<acctVars, now, cats, tags>>

\* TaskSerializer.update calling tags.set whether or not tags was supplied
SerializerUpdate_tags_always(row, body) ==
    [user |-> row.user,
     title |-> IF body.title # "" THEN body.title ELSE row.title,
     description |-> IF body.description # "" THEN body.description ELSE row.description,
     category |-> IF body.category.given THEN body.category.id ELSE row.category,
     tags |-> body.tags.ids,
     due_date |-> IF body.due_date.given THEN body.due_date.date ELSE row.due_date,
     priority |-> IF body.priority # "" THEN body.priority ELSE row.priority,
     status |-> IF body.status # "" THEN body.status ELSE row.status]

\* TaskSerializer.update: the row after the validated fields are set
SerializerUpdate(row, body) ==
    [user |-> row.user,
     title |-> IF body.title # "" THEN body.title ELSE row.title,
     description |-> IF body.description # "" THEN body.description ELSE row.description,
     category |-> IF body.category.given THEN body.category.id ELSE row.category,
     tags |-> IF body.tags.given THEN body.tags.ids ELSE row.tags,
     due_date |-> IF body.due_date.given THEN body.due_date.date ELSE row.due_date,
     priority |-> IF body.priority # "" THEN body.priority ELSE row.priority,
     status |-> IF body.status # "" THEN body.status ELSE row.status]

\* TaskViewSet.perform_update: is the requester refused?
UpdateRefused(who, obj) == tasks[obj].user # who

\* TaskViewSet.update and partial_update
UpdateTask(who, pk, body, partial) ==
    /\ Ready
    /\ IF ~IsAuthenticated(who) THEN Denied("task_update")
       ELSE LET obj == get_object(who, pk)
            IN  IF obj = 0
                THEN /\ resp' = [Response("task_update", who, 404, MsgNotFound)
                                    EXCEPT !.target = pk, !.asUser = body.user]
                     /\ UNCHANGED <<acctVars, now, taskVars>>
                ELSE IF ~TaskBodyValid(body, partial)
                THEN /\ resp' = [Response("task_update", who, 400, MsgInvalid)
                                    EXCEPT !.target = pk, !.asUser = body.user,
                                           !.rq = Rq(body),
                                           !.errors = TaskErrors(body, partial)]
                     /\ UNCHANGED <<acctVars, now, taskVars>>
                ELSE IF UpdateRefused(who, obj)
                THEN /\ resp' = [Response("task_update", who, 403, MsgNoEdit)
                                    EXCEPT !.target = pk, !.asUser = body.user]
                     /\ UNCHANGED <<acctVars, now, taskVars>>
                ELSE /\ tasks' = [tasks EXCEPT ![obj] = SerializerUpdate(@, body)]
                     /\ resp' = [Response("task_update", who, 200, MsgNone)
                                    EXCEPT !.target = pk, !.asUser = body.user,
                                           !.rq = Rq(body),
                                           !.data = {[id |-> obj] @@ SerializerUpdate(tasks[obj], body)}]
                     /\ UNCHANGED <<acctVars, now, cats, tags, nextId>>

\* TaskViewSet.perform_destroy: is the requester refused?
DestroyRefused(who, obj) == tasks[obj].user # who

\* TaskViewSet.destroy
DestroyTask(who, pk) ==
    /\ Ready
    /\ IF ~IsAuthenticated(who) THEN Denied("task_destroy")
       ELSE LET obj == get_object(who, pk)
            IN  IF obj = 0
                THEN /\ resp' = [Response("task_destroy", who, 404, MsgNotFound) EXCEPT !.target = pk]
                     /\ UNCHANGED <<acctVars, now, taskVars>>
                ELSE IF DestroyRefused(who, obj)
                THEN /\ resp' = [Response("task_destroy", who, 403, MsgNoDelete) EXCEPT !.target = pk]
                     /\ UNCHANGED <<acctVars, now, taskVars>>
                ELSE /\ tasks' = Without(tasks, obj)
                     /\ resp' = [Response("task_destroy", who, 204, MsgNone) EXCEPT !.target = pk]
                     /\ UNCHANGED <<acctVars, now, cats, tags, nextId>>

\* ------------------------------------------------------------- categories
\* the unique validator finding no other row
NameTaken_never(table, name, self) == FALSE

\* The unique validator on name: has another row of the table the name?
NameTaken(table, name, self) == \E i \in DOMAIN table : i # self /\ table[i] = name

\* CategoryViewSet.list and retrieve
ReadCategories(who, method) ==
    /\ Ready
    /\ IF ~IsAuthenticatedOrReadOnly(who, method) THEN Denied("category_read")
       ELSE /\ resp' = [Response("category_read", who, 200, MsgNone)
                           EXCEPT !.data = {[id |-> c, name |-> cats[c]] : c \in DOMAIN cats}]
            /\ UNCHANGED <<acctVars, now, taskVars>>

\* CategoryViewSet.create
CreateCategory(who, name) ==
    /\ Ready
    /\ IF ~IsAuthenticatedOrReadOnly(who, "POST") THEN Denied("category_create")
       ELSE IF NameTaken(cats, name, 0)
       THEN /\ resp' = [Response("category_create", who, 400, MsgInvalid)
                           EXCEPT !.name = name, !.errors = {"name"}]
            /\ UNCHANGED <<acctVars, now, taskVars>>
       ELSE /\ nextId.category <= MaxCats
            /\ cats' = With(cats, nextId.category, name)
            /\ nextId' = [nextId EXCEPT !.category = @ + 1]
            /\ resp' = [Response("category_create", who, 201, MsgNone)
                           EXCEPT !.target = nextId.category, !.name = name]
            /\ UNCHANGED <<acctVars, now, tags, tasks>>

\* CategoryViewSet.update and partial_update
UpdateCategory(who, pk, name) ==
    /\ Ready
    /\ IF ~IsAuthenticatedOrReadOnly(who, "PUT") THEN Denied("category_update")
       ELSE IF pk \notin DOMAIN cats
       THEN /\ resp' = [Response("category_update", who, 404, MsgNotFound)
                           EXCEPT !.target = pk, !.name = name]
            /\ UNCHANGED <<acctVars, now, taskVars>>
       ELSE IF NameTaken(cats, name, pk)
       THEN /\ resp' = [Response("category_update", who, 400, MsgInvalid)
                           EXCEPT !.target = pk, !.name = name, !.errors = {"name"}]
            /\ UNCHANGED <<acctVars, now, taskVars>>
       ELSE /\ cats' = [cats EXCEPT ![pk] = name]
            /\ resp' = [Response("category_update", who, 200, MsgNone)
                           EXCEPT !.target = pk, !.name = name]
            /\ UNCHANGED <<acctVars, now, tags, tasks, nextId>>

\* on_delete=CASCADE in place of SET_NULL: the referencing tasks are deleted
CategorySetNull_cascade(pk) ==
    [t \in {u \in DOMAIN tasks : tasks[u].category # pk} |-> tasks[t]]

\* Task.category on_delete=SET_NULL: the task rows after Category pk is deleted
CategorySetNull(pk) ==
    [t \in DOMAIN tasks |-> IF tasks[t].category = pk
                            THEN [tasks[t] EXCEPT !.category = 0] ELSE tasks[t]]

\* CategoryViewSet.destroy
DestroyCategory(who, pk) ==
    /\ Ready
    /\ IF ~IsAuthenticatedOrReadOnly(who, "DELETE") THEN Denied("category_destroy")
       ELSE IF pk \notin DOMAIN cats
       THEN /\ resp' = [Response("category_destroy", who, 404, MsgNotFound) EXCEPT !.target = pk]
            /\ UNCHANGED <<acctVars, now, taskVars>>
       ELSE /\ cats' = Without(cats, pk)
            /\ tasks' = CategorySetNull(pk)
            /\ resp' = [Response("category_destroy", who, 204, MsgNone)
                           EXCEPT !.target = pk,
                                  !.cascade = {t \in DOMAIN tasks : tasks[t].category = pk}]
            /\ UNCHANGED <<acctVars, now, tags, nextId>>

\* ------------------------------------------------------------------- tags
\* TagViewSet.list and retrieve
ReadTags(who, method) ==
    /\ Ready
    /\ IF ~IsAuthenticatedOrReadOnly(who, method) THEN Denied("tag_read")
       ELSE /\ resp' = [Response("tag_read", who, 200, MsgNone)
                           EXCEPT !.data = {[id |-> c, name |-> tags[c]] : c \in DOMAIN tags}]
            /\ UNCHANGED <<acctVars, now, taskVars>>

\* TagViewSet.create
CreateTag(who, name) ==
    /\ Ready
    /\ IF ~IsAuthenticatedOrReadOnly(who, "POST") THEN Denied("tag_create")
       ELSE IF NameTaken(tags, name, 0)
       THEN /\ resp' = [Response("tag_create", who, 400, MsgInvalid)
                           EXCEPT !.name = name, !.errors = {"name"}]
            /\ UNCHANGED <<acctVars, now, taskVars>>
       ELSE /\ nextId.tag <= MaxTags
            /\ tags' = With(tags, nextId.tag, name)
            /\ nextId' = [nextId EXCEPT !.tag = @ + 1]
            /\ resp' = [Response("tag_create", who, 201, MsgNone)
                           EXCEPT !.target = nextId.tag, !.name = name]
            /\ UNCHANGED <<acctVars, now, cats, tasks>>

\* TagViewSet.update and partial_update
UpdateTag(who, pk, name) ==
    /\ Ready
    /\ IF ~IsAuthenticatedOrReadOnly(who, "PUT") THEN Denied("tag_update")
       ELSE IF pk \notin DOMAIN tags
       THEN /\ resp' = [Response("tag_update", who, 404, MsgNotFound)
                           EXCEPT !.target = pk, !.name = name]
            /\ UNCHANGED <<acctVars, now, taskVars>>
       ELSE IF NameTaken(tags, name, pk)
       THEN /\ resp' = [Response("tag_update", who, 400, MsgInvalid)
                           EXCEPT !.target = pk, !.name = name, !.errors = {"name"}]
            /\ UNCHANGED <<acctVars, now, taskVars>>
       ELSE /\ tags' = [tags EXCEPT ![pk] = name]
            /\ resp' = [Response("tag_update", who, 200, MsgNone)
                           EXCEPT !.target = pk, !.name = name]
            /\ UNCHANGED <<acctVars, now, cats, tasks, nextId>>

\* Task.tags (ManyToManyField): the task rows after Tag pk is deleted
TagRemoved(pk) == [t \in DOMAIN tasks |-> [tasks[t] EXCEPT !.tags = @ \ {pk}]]

\* TagViewSet.destroy
DestroyTag(who, pk) ==
    /\ Ready
    /\ IF ~IsAuthenticatedOrReadOnly(who, "DELETE") THEN Denied("tag_destroy")
       ELSE IF pk \notin DOMAIN tags
       THEN /\ resp' = [Response("tag_destroy", who, 404, MsgNotFound) EXCEPT !.target = pk]
            /\ UNCHANGED <<acctVars, now, taskVars>>
       ELSE /\ tags' = Without(tags, pk)
            /\ tasks' = TagRemoved(pk)
            /\ resp' = [Response("tag_destroy", who, 204, MsgNone) EXCEPT !.target = pk]
            /\ UNCHANGED <<acctVars, now, cats, nextId>>

\* Task.user with on_delete=DO_NOTHING: the tasks stay
UserCascade_none(pk) == tasks

\* Task.user on_delete=CASCADE: the tasks left when user pk is deleted
UserCascade(pk) ==
    [t \in {i \in DOMAIN tasks : tasks[i].user # pk} |-> tasks[t]]

\* User.delete(), which no view calls (the admin site or a shell does): the
\* row goes, the tasks of the user go with it, and the refresh tokens
\* issued to the user stay on record without a user.
DeleteUser(pk) ==
    /\ Ready
    /\ pk \in DOMAIN users
    /\ users' = Without(users, pk)
    /\ tasks' = UserCascade(pk)
    /\ refresh' = [i \in DOMAIN refresh |-> IF refresh[i] = pk THEN Anonymous ELSE refresh[i]]
    /\ UNCHANGED <<salt, outbox, blacklist, calls, now, cats, tags, nextId, resp>>

\* The passing of a day.
Tick ==
    /\ Ready
    /\ now < MaxTime
    /\ now' = now + 1
    /\ UNCHANGED <<acctVars, taskVars, resp>>

\* The state after ann and bob registered and logged in.
InitTasks ==
    /\ users = <<[username |-> "ann", email |-> "a@x.org",
                  password |-> make_password("pw1", 1), epoch |-> 0],
                 [username |-> "bob", email |-> "b@x.org",
                  password |-> make_password("pw1", 2), epoch |-> 0]>>
    /\ salt = 3
    /\ outbox = <<>>
    /\ now = 0
    /\ refresh = <<1, 2>>
    /\ blacklist = {}
    /\ cats = <<>>
    /\ tags = <<>>
    /\ tasks = <<>>
    /\ nextId = [task |-> 1, category |-> 1, tag |-> 1]
    /\ resp = Idle
    /\ calls = NoCalls

NextTasks ==
    \/ \E who \in Requesters : ListTasks(who)
    \/ \E who \in Requesters, pk \in 1..MaxTasks : RetrieveTask(who, pk)
    \/ Ready /\ \E who \in Requesters, body \in TaskBodies : CreateTask(who, body)
    \/ /\ Ready
       /\ \E who \in Requesters, pk \in 1..MaxTasks, body \in TaskBodies, partial \in BOOLEAN :
              UpdateTask(who, pk, body, partial)
    \/ \E who \in Requesters, pk \in 1..MaxTasks : DestroyTask(who, pk)
    \/ \E who \in Requesters, m \in SafeMethods : ReadCategories(who, m)
    \/ \E who \in Requesters, n \in Names :
           /\ nextId.category <= MaxTaskCats \/ NameTaken(cats, n, 0)
           /\ CreateCategory(who, n)
    \/ \E who \in Requesters, pk \in 1..MaxTaskCats, n \in Names : UpdateCategory(who, pk, n)
    \/ \E who \in Requesters, pk \in 1..MaxTaskCats : DestroyCategory(who, pk)
    \/ \E who \in Requesters, m \in SafeMethods : ReadTags(who, m)
    \/ \E who \in Requesters, n \in Names :
           /\ nextId.tag <= MaxTaskTags \/ NameTaken(tags, n, 0)
           /\ CreateTag(who, n)
    \/ \E who \in Requesters, pk \in 1..MaxTaskTags, n \in Names : UpdateTag(who, pk, n)
    \/ \E who \in Requesters, pk \in 1..MaxTaskTags : DestroyTag(who, pk)
    \/ Deliver

SpecTasks == InitTasks /\ [][NextTasks]_vars

\* ------------------------------------------------------------- properties
\* C1: a task list answered to user B holds only tasks owned by B, and a
\* retrieve by B of the identifier of a task owned by another user answers
\* 404 with no task data.
C1_ListRetrieveScoped ==
    /\ resp.op = "task_list" => \A d \in resp.data : d.user = resp.who
    /\ (resp.op = "task_retrieve" /\ resp.target \in DOMAIN tasks
            /\ tasks[resp.target].user # resp.who)
        => resp.status = 404 /\ resp.data = {}
    /\ resp.op = "task_retrieve" => \A d \in resp.data : d.user = resp.who

\* C1 witness: B is answered a non-empty list while another user owns a task.
C1_Witness ==
    /\ resp.op = "task_list" /\ resp.status = 200 /\ resp.data # {}
    /\ \E t \in DOMAIN tasks : tasks[t].user # resp.who

\* C2 (as claimed): an update or delete by B of an existing task owned by
\* another user is answered 403 PermissionDenied.
C2_ForeignMutationIs403 ==
    (resp.op \in {"task_update", "task_destroy"} /\ resp.who # Anonymous
        /\ resp.target \in DOMAIN tasks /\ tasks[resp.target].user # resp.who)
    => resp.status = 403

\* C3 (as claimed): the stored state of a task (its fields, category, tag set,
\* existence) changes only in a step whose requester is the task's owner.
C3_OnlyOwnerMutates ==
    [][\A t \in DOMAIN tasks :
          (t \notin DOMAIN tasks' \/ tasks'[t] # tasks[t]) => resp'.who = tasks[t].user]_vars

\* C4: a task created through the API is owned by the requester whatever the
\* body carries under 'user', and no step changes the owner of a task.
C4_OwnerFixedAtCreation ==
    [][/\ (resp'.op = "task_create" /\ resp'.status = 201)
            => /\ resp'.target \notin DOMAIN tasks
               /\ resp'.target \in DOMAIN tasks'
               /\ tasks'[resp'.target].user = resp'.who
       /\ \A t \in DOMAIN tasks \cap DOMAIN tasks' : tasks'[t].user = tasks[t].user]_vars

\* C4 witness: a task was created by a request whose body names another user
\* as its owner.
C4_Witness ==
    /\ resp.op = "task_create" /\ resp.status = 201
    /\ resp.asUser # 0 /\ resp.asUser # resp.who
    /\ tasks[resp.target].user = resp.who

\* The whole routed API, for two registered users and requests without a
\* credential, with one request body per operation.
ApiBodies ==
    {b \in TaskBodies : b.user = 0 /\ b.title = "t1" /\ ~b.category.given /\ ~b.tags.given}

NextApi ==
    \/ \E who \in Requesters : ListTasks(who)
    \/ \E who \in Requesters, pk \in 1..MaxTasks : RetrieveTask(who, pk)
    \/ Ready /\ \E who \in Requesters, body \in ApiBodies : CreateTask(who, body)
    \/ \E who \in Requesters, pk \in 1..MaxTasks, body \in ApiBodies, partial \in BOOLEAN :
           UpdateTask(who, pk, body, partial)
    \/ \E who \in Requesters, pk \in 1..MaxTasks : DestroyTask(who, pk)
    \/ \E who \in Requesters, m \in SafeMethods : ReadCategories(who, m)
    \/ \E who \in Requesters :
           /\ nextId.category <= MaxTaskCats \/ NameTaken(cats, "n1", 0)
           /\ CreateCategory(who, "n1")
    \/ \E who \in Requesters, pk \in 1..MaxTaskCats : UpdateCategory(who, pk, "n1")
    \/ \E who \in Requesters, pk \in 1..MaxTaskCats : DestroyCategory(who, pk)
    \/ \E who \in Requesters, m \in SafeMethods : ReadTags(who, m)
    \/ \E who \in Requesters :
           /\ nextId.tag <= MaxTaskTags \/ NameTaken(tags, "n1", 0)
           /\ CreateTag(who, "n1")
    \/ \E who \in Requesters, pk \in 1..MaxTaskTags : UpdateTag(who, pk, "n1")
    \/ \E who \in Requesters, pk \in 1..MaxTaskTags : DestroyTag(who, pk)
    \/ \E who \in Requesters, t \in 0..MaxRefresh : Logout(who, t)
    \/ \E who \in Requesters : ProfileGet(who)
    \/ \E who \in Requesters : ProfileUpdate(who, "", "a@x.org")
    \/ \E who \in Requesters, o \in Passwords : ChangePassword(who, o, "pw2")
    \/ \E valid \in BOOLEAN : TokenVerify(valid)
    \/ Deliver

SpecApi == InitTasks /\ [][NextApi]_vars

\* The operations of the endpoints that are not public.
TaskOps == {"task_list", "task_retrieve", "task_create", "task_update", "task_destroy"}
AccountOps == {"logout", "profile", "profile_update", "change_password"}
TaxonomyReadOps == {"category_read", "tag_read"}
TaxonomyWriteOps == {"category_create", "category_update", "category_destroy",
                     "tag_create", "tag_update", "tag_destroy"}

\* C10 (as claimed): a request without a valid credential, of any method, to
\* the task, category and tag collections, to profile, change-password and
\* logout is answered 401 with no data and changes nothing stored.
C10_AllProtected ==
    [][(resp'.who = Anonymous
            /\ resp'.op \in TaskOps \cup AccountOps \cup TaxonomyReadOps \cup TaxonomyWriteOps)
        => /\ resp'.status = 401 /\ resp'.data = {}
           /\ UNCHANGED <<acctVars, taskVars>>]_vars

\* C10 (amended): a request without a valid credential to the task
\* collection, profile, change-password or logout, or of an unsafe method to
\* the category and tag collections, is answered 401 with no data; the safe
\* methods on categories and tags are answered to anyone; and no request
\* without a credential to any of these changes anything stored.
C10_ProtectedExceptTaxonomyReads ==
    [][/\ (resp'.who = Anonymous /\ resp'.op \in TaskOps \cup AccountOps \cup TaxonomyWriteOps)
            => resp'.status = 401 /\ resp'.data = {}
       /\ (resp'.who = Anonymous /\ resp'.op \in TaxonomyReadOps)
            => resp'.status = 200
       /\ (resp'.who = Anonymous
                /\ resp'.op \in TaskOps \cup AccountOps \cup TaxonomyReadOps \cup TaxonomyWriteOps)
            => UNCHANGED <<acctVars, taskVars>>]_vars

\* C10 witness: a category delete without a credential was refused while the
\* category, referenced by a task, exists.
C10_Witness ==
    /\ resp.op = "category_destroy" /\ resp.who = Anonymous /\ resp.status = 401
    /\ cats # <<>> /\ tasks # <<>>

\* The registrations of the reset flow's runs: ann, bob, and bob once more
\* under ann's email.
Registrations ==
    {<<"ann", "a@x.org", "pw1">>, <<"bob", "b@x.org", "pw1">>, <<"bob", "a@x.org", "pw2">>}

\* The accounts and the password reset flow.
Next ==
    \/ Ready /\ \E r \in Registrations : Register(r[1], r[2], r[3])
    \/ \E who \in Requesters, e \in Emails : ProfileUpdate(who, "", e)
    \/ \E who \in Requesters, o \in Passwords, p \in Passwords : ChangePassword(who, o, p)
    \/ /\ Ready
       /\ \E body \in ForgotBodies, smtp \in BOOLEAN :
              forgot_password(body, smtp) /\ Len(outbox') <= MaxMail
    \/ Ready /\ \E body \in ResetBodies : reset_password(body)
    \/ Tick
    \/ Deliver

Spec == Init /\ [][Next]_vars

\* C5 (as claimed): for every non-empty email forgot_password answers 200 with
\* the one generic message whether or not a user has that email, and when no
\* user has it no mail is sent and nothing stored changes.
C5_ForgotSameResponse ==
    [][(resp'.op = "forgot_password" /\ Truthy(resp'.email))
        => /\ resp'.status = 200 /\ resp'.msg = MsgResetSent
           /\ (\A u \in DOMAIN users : users[u].email # resp'.email.s)
                => UNCHANGED <<acctVars, taskVars>>]_vars

\* C6: once the password of U has changed after a reset link was mailed to U,
\* a reset_password call with that link's uidb64 and token leaves every stored
\* credential as it is and answers 400, with the invalid-link message when the
\* four fields are present and the passwords equal.
C6_StaleTokenRejected ==
    [][(resp'.op = "reset_password" /\ resp'.link # 0
            /\ users[outbox[resp'.link].user].epoch > outbox[resp'.link].epoch)
        => /\ users' = users
           /\ resp'.status = 400
           /\ (resp'.complete /\ Truthy(resp'.matching)) => resp'.msg = MsgInvalidLink]_vars

\* C6 witness: a reset with a mailed link was refused as invalid after the
\* password of the link's user had changed.
C6_Witness ==
    /\ resp.op = "reset_password" /\ resp.link # 0
    /\ users[outbox[resp.link].user].epoch > outbox[resp.link].epoch
    /\ resp.complete /\ resp.matching \in {Str(p) : p \in Passwords}
    /\ resp.status = 400 /\ resp.msg = MsgInvalidLink

\* C7 (as claimed): with the four fields present and the passwords equal, a
\* reset whose uidb64/token pair does not verify (uidb64 that does not decode,
\* whatever value was supplied, uidb64 of no user, token that fails for the
\* user) answers 400 with the invalid-link message and changes no credential.
C7_InvalidLinkUniform ==
    [][(/\ resp'.op = "reset_password" /\ resp'.json = "object"
        /\ resp'.complete /\ Truthy(resp'.matching)
        /\ ~(/\ resp'.link # 0
              /\ check_token(outbox[resp'.link].user, outbox[resp'.link].token)))
        => /\ resp'.status = 400 /\ resp'.msg = MsgInvalidLink
           /\ users' = users]_vars

\* C8: a reset_password call with a field absent answers 400 with the
\* missing-field message, one with unequal passwords answers 400 with the
\* unequal-passwords message, and neither changes a credential, also when the
\* uidb64/token pair is a valid one.
C8_ResetValidation ==
    [][(/\ resp'.op = "reset_password" /\ resp'.json = "object"
        /\ (~resp'.complete \/ ~Truthy(resp'.matching)))
        => /\ users' = users
           /\ resp'.status = 400
           /\ resp'.msg = IF ~resp'.complete THEN MsgAllRequired ELSE MsgMismatch]_vars

\* C8 witness: unequal passwords were refused although the link was valid.
C8_Witness ==
    /\ resp.op = "reset_password" /\ resp.msg = MsgMismatch /\ resp.status = 400
    /\ resp.link # 0
    /\ check_token(outbox[resp.link].user, outbox[resp.link].token)

\* C9 (as claimed): a reset with a valid uidb64/token pair for U and equal
\* passwords succeeds; U's credential becomes a hash of new_password and not
\* the plaintext, no other user changes, the response carries an access token
\* for U, login with new_password succeeds and login with the old one fails.
C9_ResetSucceeds ==
    [][(/\ resp'.op = "reset_password" /\ resp'.complete
        /\ resp'.matching \in {Str(p) : p \in Passwords}
        /\ resp'.link # 0
        /\ check_token(outbox[resp'.link].user, outbox[resp'.link].token))
        => LET U == outbox[resp'.link].user
               name == users[U].username
           IN  /\ resp'.status = 200 /\ resp'.access = U
               /\ users'[U].password.algorithm # ""
               /\ users'[U].password # users[U].password
               /\ \A v \in DOMAIN users \ {U} : users'[v] = users[v]
               /\ Authenticate(users', name, resp'.matching.s) = U
               /\ \A old \in Passwords :
                     check_password(old, users[U].password)
                        => Authenticate(users', name, old) = Anonymous]_vars

\* C9 (amended): as C9, but login with the old password fails afterwards
\* only when new_password differs from the old password.
C9_ResetSucceedsUnlessSame ==
    [][(/\ resp'.op = "reset_password" /\ resp'.complete
        /\ resp'.matching \in {Str(p) : p \in Passwords}
        /\ resp'.link # 0
        /\ check_token(outbox[resp'.link].user, outbox[resp'.link].token))
        => LET U == outbox[resp'.link].user
               name == users[U].username
           IN  /\ resp'.status = 200 /\ resp'.access = U
               /\ users'[U].password.algorithm # ""
               /\ users'[U].password # users[U].password
               /\ \A v \in DOMAIN users \ {U} : users'[v] = users[v]
               /\ Authenticate(users', name, resp'.matching.s) = U
               /\ \A old \in Passwords :
                     (check_password(old, users[U].password) /\ old # resp'.matching.s)
                        => Authenticate(users', name, old) = Anonymous]_vars

\* C9 witness: ann, registered with "pw1", has reset her password to "pw2"
\* while a second user exists.
C9_Witness ==
    /\ resp.op = "reset_password" /\ resp.status = 200
    /\ Len(users) = 2 /\ resp.access \in DOMAIN users
    /\ users[resp.access].username = "ann" /\ users[resp.access].epoch = 1
    /\ check_password("pw2", users[resp.access].password)
\* Sessions: login, logout and change of password of two registered users.
InitSession ==
    /\ users = <<[username |-> "ann", email |-> "a@x.org",
                  password |-> make_password("pw1", 1), epoch |-> 0],
                 [username |-> "bob", email |-> "b@x.org",
                  password |-> make_password("pw1", 2), epoch |-> 0]>>
    /\ salt = 3
    /\ outbox = <<>>
    /\ now = 0
    /\ refresh = <<>>
    /\ blacklist = {}
    /\ cats = <<>>
    /\ tags = <<>>
    /\ tasks = <<>>
    /\ nextId = [task |-> 1, category |-> 1, tag |-> 1]
    /\ resp = Idle
    /\ calls = NoCalls

NextSession ==
    \/ \E u \in Usernames, p \in Passwords : Login(u, p)
    \/ \E who \in Requesters, t \in 0..MaxRefresh : Logout(who, t)
    \/ \E who \in Requesters, o \in Passwords, p \in Passwords : ChangePassword(who, o, p)
    \/ Deliver

SpecSession == InitSession /\ [][NextSession]_vars

\* C11 (as claimed): an unexpected failure inside forgot_password or
\* reset_password is answered 500 with one generic body, the same for every
\* cause: it carries no detail of the failure.
C11_GenericServerError ==
    (resp.op \in {"forgot_password", "reset_password"} /\ resp.status = 500)
    => resp.msg = MsgUnexpected /\ resp.detail = ""

\* C12 (as claimed): a registration with the username of an existing user
\* answers 400 with a username error, one with the email of an existing user
\* answers 400 with an email error, neither creates a user; one with a fresh
\* username and email answers 201 and adds exactly one user, whose stored
\* password is a hash that verifies the supplied password.
C12_RegistrationDuplicates ==
    [][resp'.op = "register"
        => /\ UsernameExists(resp'.name)
                => resp'.status = 400 /\ "username" \in resp'.errors /\ users' = users
           /\ EmailExists(resp'.email.s)
                => resp'.status = 400 /\ "email" \in resp'.errors /\ users' = users
           /\ (~UsernameExists(resp'.name) /\ ~EmailExists(resp'.email.s))
                => /\ resp'.status = 201
                   /\ Len(users') = Len(users) + 1
                   /\ SubSeq(users', 1, Len(users)) = users
                   /\ users'[Len(users')].username = resp'.name
                   /\ users'[Len(users')].email = resp'.email.s
                   /\ users'[Len(users')].password.algorithm # ""
                   /\ check_password(resp'.password.s, users'[Len(users')].password)]_vars
\* C13: a refresh token stays blacklisted once it is; a logout answered 205
\* for refresh token R blacklists R; a logout with a blacklisted R, or with a
\* refresh_token that is missing or is no issued refresh token, answers 400
\* and blacklists nothing.
C13_LogoutBlacklists ==
    [][/\ blacklist \subseteq blacklist'
       /\ (resp'.op = "logout" /\ resp'.status = 205)
            => resp'.target \in DOMAIN refresh /\ resp'.target \in blacklist'
       /\ (resp'.op = "logout" /\ resp'.who # Anonymous
                /\ (resp'.target \in blacklist \/ resp'.target \notin DOMAIN refresh))
            => resp'.status = 400 /\ blacklist' = blacklist]_vars

\* C13 witness: a second logout with a refresh token that an earlier logout
\* had blacklisted was refused.
C13_Witness ==
    /\ resp.op = "logout" /\ resp.who # Anonymous /\ resp.status = 400
    /\ resp.target \in blacklist

DueBodies ==
    [user : {0}, title : {"t1"}, description : {""},
     category : {[given |-> FALSE, id |-> 0]},
     tags : {[given |-> FALSE, ids |-> {}]}, due_date : DueInputs,
     priority : {""}, status : {""}]

NextDue ==
    \/ \E who \in Requesters, body \in DueBodies : CreateTask(who, body)
    \/ \E who \in Requesters, pk \in 1..MaxTasks, body \in DueBodies, partial \in BOOLEAN :
           UpdateTask(who, pk, body, partial)
    \/ Tick
    \/ Deliver

SpecDue == InitTasks /\ [][NextDue]_vars

\* C15: a task create or update that supplies a due date earlier than the
\* current day answers 400 with an error on due_date and stores nothing; a
\* due date of today or later, a null and an omitted due date are accepted
\* and stored; so whenever a step gives a task a due date, that date is not
\* earlier than the day of the step.
C15_DueDateNotPast ==
    [][/\ (resp'.op \in {"task_create", "task_update"} /\ resp'.status \notin {401, 404})
            => LET d == resp'.rq.due_date
                   past == d.given /\ d.date # NoDate /\ d.date < now
               IN  /\ past => /\ resp'.status = 400 /\ "due_date" \in resp'.errors
                               /\ tasks' = tasks
                   /\ ~past => "due_date" \notin resp'.errors
                   /\ resp'.errors = {} => resp'.status \in {200, 201}
                   /\ (resp'.status \in {200, 201} /\ d.given)
                        => tasks'[resp'.target].due_date = d.date
       /\ \A t \in DOMAIN tasks' :
            (/\ tasks'[t].due_date # NoDate
             /\ (t \notin DOMAIN tasks \/ tasks'[t].due_date # tasks[t].due_date))
            => tasks'[t].due_date >= now]_vars

\* C15 witness: an update that sets yesterday as due date was refused, for a
\* task whose stored due date is no longer in the future.
C15_Witness ==
    /\ resp.op = "task_update" /\ resp.status = 400 /\ resp.errors = {"due_date"}
    /\ resp.rq.due_date.date = now - 1
    /\ tasks[resp.target].due_date # NoDate /\ tasks[resp.target].due_date <= now
\* Categories and tags alone: any requester creates, renames and deletes.
NextTaxonomy ==
    \/ \E who \in Requesters, n \in Names : CreateCategory(who, n)
    \/ \E who \in Requesters, pk \in 1..MaxCats, n \in Names : UpdateCategory(who, pk, n)
    \/ \E who \in Requesters, pk \in 1..MaxCats : DestroyCategory(who, pk)
    \/ \E who \in Requesters, n \in Names : CreateTag(who, n)
    \/ \E who \in Requesters, pk \in 1..MaxTags, n \in Names : UpdateTag(who, pk, n)
    \/ \E who \in Requesters, pk \in 1..MaxTags : DestroyTag(who, pk)
    \/ Deliver

SpecTaxonomy == InitTasks /\ [][NextTaxonomy]_vars

\* C16: category names are pairwise distinct and tag names are pairwise
\* distinct after every step; a create with the name of an existing record
\* answers 400 and adds nothing; a rename to the name of another existing
\* record answers 400 and changes nothing.
C16_NamesUnique ==
    [][/\ \A i, j \in DOMAIN cats' : i # j => cats'[i] # cats'[j]
       /\ \A i, j \in DOMAIN tags' : i # j => tags'[i] # tags'[j]
       /\ (resp'.op = "category_create" /\ resp'.who # Anonymous
                /\ \E i \in DOMAIN cats : cats[i] = resp'.name)
            => resp'.status = 400 /\ UNCHANGED taskVars
       /\ (resp'.op = "tag_create" /\ resp'.who # Anonymous
                /\ \E i \in DOMAIN tags : tags[i] = resp'.name)
            => resp'.status = 400 /\ UNCHANGED taskVars
       /\ (resp'.op = "category_update" /\ resp'.who # Anonymous
                /\ resp'.target \in DOMAIN cats
                /\ \E i \in DOMAIN cats \ {resp'.target} : cats[i] = resp'.name)
            => resp'.status = 400 /\ UNCHANGED taskVars
       /\ (resp'.op = "tag_update" /\ resp'.who # Anonymous
                /\ resp'.target \in DOMAIN tags
                /\ \E i \in DOMAIN tags \ {resp'.target} : tags[i] = resp'.name)
            => resp'.status = 400 /\ UNCHANGED taskVars]_vars

\* C16 witness: the rename of a category to the name of the other category
\* was refused.
C16_Witness ==
    /\ resp.op = "category_update" /\ resp.status = 400
    /\ resp.target \in DOMAIN cats
    /\ \E i \in DOMAIN cats \ {resp.target} : cats[i] = resp.name
\* C17: the delete of a category deletes no task; every task that referenced
\* the category is afterwards the same task with no category, and every
\* other task is unchanged.
C17_CategoryDeleteSetsNull ==
    [][(resp'.op = "category_destroy" /\ resp'.status = 204)
        => /\ resp'.target \in DOMAIN cats /\ resp'.target \notin DOMAIN cats'
           /\ DOMAIN tasks' = DOMAIN tasks
           /\ \A t \in DOMAIN tasks :
                IF tasks[t].category = resp'.target
                THEN tasks'[t] = [tasks[t] EXCEPT !.category = 0]
                ELSE tasks'[t] = tasks[t]]_vars

\* C17 witness: a category was deleted that a task with a tag referenced,
\* while another task did not reference it.
C17_Witness ==
    /\ resp.op = "category_destroy" /\ resp.status = 204
    /\ \E t \in resp.cascade :
            t \in DOMAIN tasks /\ tasks[t].category = 0 /\ tasks[t].tags # {}
    /\ \E t \in DOMAIN tasks : t \notin resp.cascade

\* C19: a task create or update that supplies the id of no existing category,
\* or a tag id of no existing tag, answers 400 and neither creates nor changes
\* a task; one that succeeds stores exactly the supplied category and exactly
\* the supplied set of tags, and keeps those it does not supply.
C19_ReferencesExist ==
    [][(resp'.op \in {"task_create", "task_update"} /\ resp'.status \notin {401, 404})
        => LET c == resp'.rq.category
               g == resp'.rq.tags
               unknown == \/ c.given /\ c.id # 0 /\ c.id \notin DOMAIN cats
                          \/ g.given /\ ~(g.ids \subseteq DOMAIN tags)
           IN  /\ unknown => /\ resp'.status = 400 /\ tasks' = tasks
                              /\ resp'.errors \cap {"category", "tags"} # {}
               /\ ~unknown => resp'.errors \cap {"category", "tags"} = {}
               /\ resp'.status \in {200, 201}
                    => LET new == tasks'[resp'.target]
                       IN  /\ c.given => new.category = c.id
                           /\ g.given => new.tags = g.ids
                           /\ (~c.given /\ resp'.op = "task_update")
                                => new.category = tasks[resp'.target].category
                           /\ (~g.given /\ resp'.op = "task_update")
                                => new.tags = tasks[resp'.target].tags
                           /\ (~c.given /\ resp'.op = "task_create") => new.category = 0
                           /\ (~g.given /\ resp'.op = "task_create") => new.tags = {}
                           /\ new.category # 0 => new.category \in DOMAIN cats
                           /\ new.tags \subseteq DOMAIN tags]_vars

\* C19 witness: a task was stored with the category and the tag its request
\* supplied.
C19_Witness ==
    /\ resp.op \in {"task_create", "task_update"} /\ resp.status \in {200, 201}
    /\ resp.rq.category.given /\ resp.rq.category.id # 0
    /\ resp.rq.tags.given /\ resp.rq.tags.ids # {}
    /\ tasks[resp.target].category = resp.rq.category.id
    /\ tasks[resp.target].tags = resp.rq.tags.ids
\* Priority and status: tasks of two registered users created and updated
\* with values inside and outside the choices.
ChoiceBodies ==
    [user : {0}, title : {"t1"}, description : {""},
     category : {[given |-> FALSE, id |-> 0]},
     tags : {[given |-> FALSE, ids |-> {}]},
     due_date : {[given |-> FALSE, date |-> NoDate]},
     priority : PriorityInputs, status : StatusInputs]

NextChoice ==
    \/ \E who \in Requesters, body \in ChoiceBodies : CreateTask(who, body)
    \/ \E who \in Requesters, pk \in 1..MaxTasks, body \in ChoiceBodies, partial \in BOOLEAN :
           UpdateTask(who, pk, body, partial)
    \/ Deliver

SpecChoice == InitTasks /\ [][NextChoice]_vars

\* C18: every stored task has priority low, medium or high and status
\* pending, in_progress or completed; a create or update that supplies
\* another value for either answers 400 with an error on that field and
\* changes nothing; a create that omits them stores medium and pending.
C18_ChoicesEnforced ==
    [][/\ \A t \in DOMAIN tasks' :
            /\ tasks'[t].priority \in {"low", "medium", "high"}
            /\ tasks'[t].status \in {"pending", "in_progress", "completed"}
       /\ (resp'.op \in {"task_create", "task_update"} /\ resp'.status \notin {401, 404})
            => LET p == resp'.rq.priority
                   s == resp'.rq.status
                   badp == p # "" /\ p \notin {"low", "medium", "high"}
                   bads == s # "" /\ s \notin {"pending", "in_progress", "completed"}
               IN  /\ badp <=> "priority" \in resp'.errors
                   /\ bads <=> "status" \in resp'.errors
                   /\ (badp \/ bads) => resp'.status = 400 /\ tasks' = tasks
                   /\ ~(badp \/ bads) => resp'.status \in {200, 201}
                   /\ resp'.status = 201
                        => /\ tasks'[resp'.target].priority = IF p = "" THEN "medium" ELSE p
                           /\ tasks'[resp'.target].status = IF s = "" THEN "pending" ELSE s
                   /\ resp'.status = 200
                        => /\ tasks'[resp'.target].priority
                                = IF p = "" THEN tasks[resp'.target].priority ELSE p
                           /\ tasks'[resp'.target].status
                                = IF s = "" THEN tasks[resp'.target].status ELSE s]_vars

\* C18 witness: an update with a status outside the choices was refused and
\* the task, created without priority and status, holds the defaults.
C18_Witness ==
    /\ resp.op = "task_update" /\ resp.status = 400 /\ resp.rq.status = "done"
    /\ "status" \in resp.errors
    /\ tasks[resp.target].priority = "medium" /\ tasks[resp.target].status = "pending"
\* The task list with query parameters: tasks of ann and bob that differ
\* from a plain one in at most one field, listed under at most two
\* parameters.
FilterBodies ==
    {b \in [user : {0}, title : {"Ab", "b"}, description : {"", "Ab"},
            category : {[given |-> FALSE, id |-> 0], [given |-> TRUE, id |-> 1]},
            tags : {[given |-> FALSE, ids |-> {}]},
            due_date : {[given |-> FALSE, date |-> NoDate], [given |-> TRUE, date |-> 2],
                        [given |-> TRUE, date |-> 3]},
            priority : {"", "high"}, status : {"", "completed"}] :
        Cardinality({f \in {"title", "description", "category", "due_date", "priority", "status"} :
            \/ f = "title" /\ b.title # "Ab"
            \/ f = "description" /\ b.description # ""
            \/ f = "category" /\ b.category.given
            \/ f = "due_date" /\ b.due_date.given
            \/ f = "priority" /\ b.priority # ""
            \/ f = "status" /\ b.status # ""}) <= 1}

FilterQueries ==
    {q \in [title : {"", "B", " b"}, description : {"", "a"}, status : {"", "completed"},
            priority : {"", "high"}, category : {"", "1", "abc"},
            due_date : {NoDate, 2, BadDate}, due_date_after : {NoDate, 3},
            due_date_before : {NoDate, 2}] :
        Cardinality({f \in DOMAIN q : q[f] # NoQuery[f]}) <= 2}

NextFilter ==
    \/ /\ Ready /\ nextId.category <= MaxTaskCats
       /\ \E who \in DOMAIN users : CreateCategory(who, "n1")
    \/ Ready /\ \E who \in Requesters, body \in FilterBodies : CreateTask(who, body)
    \/ Ready /\ \E who \in Requesters, q \in FilterQueries : FilterTasks(who, q)
    \/ Deliver

SpecFilter == InitTasks /\ [][NextFilter]_vars

\* C20: a task list asked by an authenticated user with any of the
\* parameters title, description, status, priority, category, due_date,
\* due_date_after, due_date_before (the dates being dates) is answered 200
\* with exactly the requester's tasks that satisfy every supplied one:
\* title and description contain the value regardless of case, status and
\* priority equal it, the category id equals it, the due date is equal to,
\* not before, or not after the given date; with no parameter, all the
\* requester's tasks.
C20_FilteredList ==
    [][(/\ resp'.op = "task_list" /\ resp'.who # Anonymous
        /\ BadDate \notin {resp'.q.due_date, resp'.q.due_date_after, resp'.q.due_date_before})
        => LET q == resp'.q
               Satisfies(t) ==
                   /\ tasks[t].user = resp'.who
                   /\ q.title = "" \/ icontains(Chars(tasks[t].title), Chars(q.title))
                   /\ q.description = ""
                        \/ icontains(Chars(tasks[t].description), Chars(q.description))
                   /\ q.status = "" \/ tasks[t].status = q.status
                   /\ q.priority = "" \/ tasks[t].priority = q.priority
                   /\ q.category = ""
                        \/ (/\ tasks[t].category # 0
                            /\ IsNumber(Chars(q.category))
                            /\ ToInt(Chars(q.category)) = tasks[t].category)
                   /\ q.due_date = NoDate \/ tasks[t].due_date = q.due_date
                   /\ q.due_date_after = NoDate
                        \/ (tasks[t].due_date # NoDate /\ tasks[t].due_date >= q.due_date_after)
                   /\ q.due_date_before = NoDate
                        \/ (tasks[t].due_date # NoDate /\ tasks[t].due_date <= q.due_date_before)
           IN  /\ resp'.status = 200
               /\ resp'.data = {TaskData(t) : t \in {u \in DOMAIN tasks : Satisfies(u)}}]_vars
\* The state after ann registered.
InitReset ==
    /\ users = <<[username |-> "ann", email |-> "a@x.org",
                  password |-> make_password("pw1", 1), epoch |-> 0]>>
    /\ salt = 2
    /\ outbox = <<>>
    /\ now = 0
    /\ refresh = <<>>
    /\ blacklist = {}
    /\ cats = <<>>
    /\ tags = <<>>
    /\ tasks = <<>>
    /\ nextId = [task |-> 1, category |-> 1, tag |-> 1]
    /\ resp = Idle
    /\ calls = NoCalls

\* The bodies that carry a mailed link and a new password, twice.
LinkBodies ==
    {b \in ResetBodies :
        /\ b.json = "object" /\ LinkOf(b) # 0
        /\ b.new_password.kind = "string" /\ b.confirm_password = b.new_password}

\* Resets side by side: links are mailed to ann and reset_password
\* requests run interleaved, query by query.
NextReset ==
    \/ Ready /\ \E e \in Emails : forgot_password([json |-> "object", email |-> Str(e)], TRUE)
    \/ Ready /\ \E c \in 1..MaxCalls, body \in LinkBodies : reset_password_get(c, body)
    \/ \E c \in 1..MaxCalls : reset_password_save(c)
    \/ Deliver

SpecReset == InitReset /\ [][NextReset]_vars

\* C21: of the reset_password requests that carry one mailed link, whether
\* they run one after the other or side by side, at most one succeeds per
\* password-hash epoch: a request is answered 200 only if the credential of
\* U is still the one the link was issued for when the answer is given.
C21_OneResetPerToken ==
    [][(resp'.op = "reset_password" /\ resp'.status = 200 /\ resp'.link # 0)
        => users[outbox[resp'.link].user].epoch = outbox[resp'.link].epoch]_vars
\* Re-issued links: links are mailed to ann on different days, her email
\* is changed, and resets are requested one after the other.
NextReissue ==
    \/ Ready /\ \E e \in Emails : forgot_password([json |-> "object", email |-> Str(e)], TRUE)
    \/ Ready /\ \E body \in LinkBodies : reset_password(body)
    \/ \E who \in DOMAIN users, e \in Emails : ProfileUpdate(who, "", e)
    \/ Tick
    \/ Deliver

SpecReissue == InitReset /\ [][NextReissue]_vars

\* C22 (as claimed): a reset_password request that carries a mailed link of
\* U, with a new password given twice, is answered 200 whenever the password
\* of U has not changed since the link was mailed and the link is within the
\* validity window, however many links were mailed to U before or after it.
C22_EarlierTokenStaysValid ==
    [][(/\ resp'.op = "reset_password" /\ resp'.link # 0
        /\ resp'.complete /\ resp'.matching.kind = "string"
        /\ users[outbox[resp'.link].user].epoch = outbox[resp'.link].epoch
        /\ now - outbox[resp'.link].token.ts <= PASSWORD_RESET_TIMEOUT)
        => resp'.status = 200]_vars

\* C22 (amended): the same, provided also that the email address of U is
\* the one it was when the link was mailed.
C22_EarlierTokenStaysValidSameEmail ==
    [][(/\ resp'.op = "reset_password" /\ resp'.link # 0
        /\ resp'.complete /\ resp'.matching.kind = "string"
        /\ users[outbox[resp'.link].user].epoch = outbox[resp'.link].epoch
        /\ users[outbox[resp'.link].user].email = outbox[resp'.link].to
        /\ now - outbox[resp'.link].token.ts <= PASSWORD_RESET_TIMEOUT)
        => resp'.status = 200]_vars

\* C22 witness: two different links were mailed to U and a reset with the
\* earlier one has just succeeded.
C22_Witness ==
    /\ Len(outbox) = 2 /\ outbox[1].user = outbox[2].user
    /\ outbox[1].token # outbox[2].token
    /\ resp.op = "reset_password" /\ resp.status = 200 /\ resp.link = 1
\* Updates of one task of ann: bodies that hold at most two keys besides
\* the title, sent as PUT and as PATCH.
UpdateBodies ==
    {b \in [user : {0}, title : Titles \cup {""}, description : {"", "Ab"},
            category : {[given |-> FALSE, id |-> 0], [given |-> TRUE, id |-> 0],
                        [given |-> TRUE, id |-> 1]},
            tags : {[given |-> FALSE, ids |-> {}], [given |-> TRUE, ids |-> {}],
                    [given |-> TRUE, ids |-> {1}]},
            due_date : {[given |-> FALSE, date |-> NoDate], [given |-> TRUE, date |-> 2]},
            priority : {"", "high"}, status : {"", "completed"}] :
        Cardinality(Present(b) \ {"title"}) <= 2}

NextUpdate ==
    \/ Ready /\ nextId.category <= MaxTaskCats /\ CreateCategory(1, "n1")
    \/ Ready /\ nextId.tag <= MaxTaskTags /\ CreateTag(1, "n1")
    \/ Ready /\ tasks = <<>> /\ \E body \in UpdateBodies : CreateTask(1, body)
    \/ /\ Ready
       /\ \E who \in DOMAIN users, pk \in DOMAIN tasks, body \in UpdateBodies, partial \in BOOLEAN :
              UpdateTask(who, pk, body, partial)
    \/ Deliver

SpecUpdate == InitTasks /\ [][NextUpdate]_vars

IntegrityBodies == {b \in TaskBodies : b.user = 0 /\ b.title = "t1"}

NextIntegrity ==
    \/ Ready /\ nextId.category <= MaxTaskCats
             /\ \E who \in DOMAIN users : CreateCategory(who, "n1")
    \/ Ready /\ nextId.tag <= MaxTaskTags
             /\ \E who \in DOMAIN users : CreateTag(who, "n1")
    \/ Ready /\ \E who \in DOMAIN users, body \in IntegrityBodies : CreateTask(who, body)
    \/ /\ Ready
       /\ \E who \in DOMAIN users, pk \in DOMAIN tasks, body \in IntegrityBodies :
              UpdateTask(who, pk, body, TRUE)
    \/ \E who \in DOMAIN users, pk \in DOMAIN tasks : DestroyTask(who, pk)
    \/ \E who \in DOMAIN users, pk \in DOMAIN cats : DestroyCategory(who, pk)
    \/ \E who \in DOMAIN users, pk \in DOMAIN tags : DestroyTag(who, pk)
    \/ \E pk \in DOMAIN users : DeleteUser(pk)
    \/ Deliver

SpecIntegrity == InitTasks /\ [][NextIntegrity]_vars

\* C24: after every step the owner of every task is an existing user, its
\* category is absent or an existing category, and its tags are existing
\* tags; the deletion of a user removes exactly the tasks that user owns and
\* changes no other; the deletion of a tag removes no task and takes the tag
\* out of every tag set, changing nothing else.
C24_ReferentialIntegrity ==
    [][/\ \A t \in DOMAIN tasks' :
            /\ tasks'[t].user \in DOMAIN users'
            /\ tasks'[t].category = 0 \/ tasks'[t].category \in DOMAIN cats'
            /\ tasks'[t].tags \subseteq DOMAIN tags'
       /\ \A u \in DOMAIN users \ DOMAIN users' :
            /\ DOMAIN tasks' = {t \in DOMAIN tasks : tasks[t].user # u}
            /\ \A t \in DOMAIN tasks' : tasks'[t] = tasks[t]
       /\ \A g \in DOMAIN tags \ DOMAIN tags' :
            /\ DOMAIN tasks' = DOMAIN tasks
            /\ \A t \in DOMAIN tasks : tasks'[t] = [tasks[t] EXCEPT !.tags = @ \ {g}]]_vars

\* C24 witness: a user who owned a task has been deleted while a task of
\* the other user, with a category and a tag, is still there.
C24_Witness ==
    /\ Cardinality(DOMAIN users) = 1
    /\ nextId.task = 3
    /\ \E t \in DOMAIN tasks : tasks[t].category # 0 /\ tasks[t].tags # {}
    /\ Cardinality(DOMAIN tasks) = 1
\* Registrations side by side, from the empty store, and profile updates
\* that set the email.
NextSignup ==
    \/ /\ Ready
       /\ \E c \in 1..MaxCalls, u \in Usernames, e \in Emails, p \in Passwords :
              Register_check(c, u, e, p)
    \/ \E c \in 1..MaxCalls : Register_insert(c)
    \/ \E who \in DOMAIN users, e \in Emails : ProfileUpdate(who, "", e)
    \/ Deliver

SpecSignup == Init /\ [][NextSignup]_vars

\* C25: in every reachable state, whatever registrations and profile
\* updates were made and however they were interleaved, no two stored users
\* have the same email address.
C25_EmailsDistinct ==
    \A u, v \in DOMAIN users : u # v => users[u].email # users[v].email
====
